---- MODULE Spec2Model ----
(***************************************************************************)
(* Model of chat_companion.py (v4 "Warm Pipeline + Clarifier"): the        *)
(* per-turn handler of the franchise chat companion, its field extractors, *)
(* its digression handlers and its recommendation filter.                  *)
(*                                                                         *)
(* A text is a sequence of one-character strings, so that the regular      *)
(* expressions of the source are computed on characters.                   *)
(***************************************************************************)
EXTENDS Integers, Sequences, FiniteSets, TLC

(***************************************************************************)
(* Bounds of the model.                                                    *)
(***************************************************************************)
\* number of user turns in a conversation
MaxTurns == 5
\* number of turns with an arbitrary text before the user answers the
\* questions
MaxFreeTurns == 3

(***************************************************************************)
(* Characters.                                                             *)
(***************************************************************************)
LowerAlphabet ==
  <<"a","b","c","d","e","f","g","h","i","j","k","l","m",
    "n","o","p","q","r","s","t","u","v","w","x","y","z">>
UpperAlphabet ==
  <<"A","B","C","D","E","F","G","H","I","J","K","L","M",
    "N","O","P","Q","R","S","T","U","V","W","X","Y","Z">>
DigitChars == <<"0","1","2","3","4","5","6","7","8","9">>

Range(f) == { f[i] : i \in DOMAIN f }

LowerSet == Range(LowerAlphabet)
UpperSet == Range(UpperAlphabet)
LetterSet == LowerSet \cup UpperSet
DigitSet == Range(DigitChars)

\* [a-zA-Z]
IsLetter(c) == c \in LetterSet
\* \d
IsDigit(c) == c \in DigitSet
\* \w
IsWordChar(c) == IsLetter(c) \/ IsDigit(c) \/ c = "_"
\* \s
IsSpace(c) == c = " "

IndexIn(seq, c) == CHOOSE i \in DOMAIN seq : seq[i] = c

\* str.lower() on one character
LowerChar(c) ==
  IF c \in UpperSet THEN LowerAlphabet[IndexIn(UpperAlphabet, c)] ELSE c
UpperChar(c) ==
  IF c \in LowerSet THEN UpperAlphabet[IndexIn(LowerAlphabet, c)] ELSE c
DigitVal(c) == IndexIn(DigitChars, c) - 1

\* a function on 1..n as a sequence value
AsSeq(f) == SubSeq(f, 1, Len(f))

\* str.lower()
Lower(s) == AsSeq([i \in DOMAIN s |-> LowerChar(s[i])])
\* str.title() on a run of letters: first letter upper case, the rest lower
Title(s) ==
  AsSeq([i \in DOMAIN s |-> IF i = 1 THEN UpperChar(s[i]) ELSE LowerChar(s[i])])

(***************************************************************************)
(* Regular-expression primitives.                                          *)
(***************************************************************************)
\* pattern p occurs in s starting at position i
MatchAt(s, p, i) ==
  /\ i >= 1
  /\ i + Len(p) - 1 <= Len(s)
  /\ \A k \in 1..Len(p) : s[i + k - 1] = p[k]

\* the positions at which p occurs in s
Occurrences(s, p) == { i \in 1..Len(s) : MatchAt(s, p, i) }

\* "p in s"
Contains(s, p) == Occurrences(s, p) # {}

\* \b at the gap before position i (i in 1..Len(s)+1)
Boundary(s, i) ==
  LET before == i > 1 /\ IsWordChar(s[i - 1])
      after  == i <= Len(s) /\ IsWordChar(s[i])
  IN  before # after

\* re.search(r"\bp\b", s)
ContainsWord(s, p) ==
  \E i \in Occurrences(s, p) : Boundary(s, i) /\ Boundary(s, i + Len(p))

\* the end (exclusive) of the maximal run of characters satisfying the
\* class, starting at position i
Min(S) == CHOOSE x \in S : \A y \in S : x <= y

RunEnd(s, i, class) ==
  Min({ j \in i..(Len(s) + 1) : j = Len(s) + 1 \/ s[j] \notin class })

\* the elements of a set of numbers, in increasing order
Sorted(S) ==
  AsSeq([k \in 1..Cardinality(S) |->
           CHOOSE x \in S : Cardinality({ y \in S : y < x }) = k - 1])

(***************************************************************************)
(* String literals of the source, spelled as character sequences.          *)
(***************************************************************************)
S_small == <<"s","m","a","l","l">>
S_large == <<"l","a","r","g","e">>
S_big == <<"b","i","g">>
S_either == <<"e","i","t","h","e","r">>
S_any == <<"a","n","y">>
S_no_preference == <<"n","o"," ","p","r","e","f","e","r","e","n","c","e">>
S_benefit == <<"b","e","n","e","f","i","t">>
S_advantage == <<"a","d","v","a","n","t","a","g","e">>
S_difference == <<"d","i","f","f","e","r","e","n","c","e">>
S_scared == <<"s","c","a","r","e","d">>
S_nervous == <<"n","e","r","v","o","u","s">>
S_worried == <<"w","o","r","r","i","e","d">>
S_fear == <<"f","e","a","r">>
S_semi == <<"s","e","m","i">>
S_10_20 == <<"1","0","-","2","0">>
S_1020 == <<"1","0","2","0">>
S_part_time_hyphen == <<"p","a","r","t","-","t","i","m","e">>
S_part_time_space == <<"p","a","r","t"," ","t","i","m","e">>
S_parttime == <<"p","a","r","t","t","i","m","e">>
S_passive == <<"p","a","s","s","i","v","e">>
S_five == <<"f","i","v","e">>
S_hours == <<"h","o","u","r","s">>
S_im == <<"i","m">>
S_i_apos_m == <<"i","'","m">>
S_i_sp_m == <<"i"," ","m">>
S_my_name_is == <<"m","y"," ","n","a","m","e"," ","i","s">>
S_Yes == <<"Y","e","s">>

(***************************************************************************)
(* Field extractors.                                                       *)
(***************************************************************************)
\* re.findall(r"[a-zA-Z]{3,}", lower): the maximal runs of letters that
\* have three letters or more, from left to right
InterestTokens(lower) ==
  LET starts == { i \in 1..Len(lower) :
                    /\ IsLetter(lower[i])
                    /\ (i = 1 \/ ~IsLetter(lower[i - 1]))
                    /\ RunEnd(lower, i, LetterSet) - i >= 3 }
      order == Sorted(starts)
  IN  AsSeq([k \in DOMAIN order |->
                SubSeq(lower, order[k], RunEnd(lower, order[k], LetterSet) - 1)])

\* re.search(r"\$?([\d,]+)", lower): <<>> when there is no match, else
\* <<group(1)>>, the first maximal run of digits and commas
CapitalSearch(lower) ==
  LET class == DigitSet \cup {","}
      starts == { i \in 1..Len(lower) : lower[i] \in class }
  IN  IF starts = {} THEN <<>>
      ELSE LET i == Min(starts)
           IN  <<SubSeq(lower, i, RunEnd(lower, i, class) - 1)>>

\* m.group(1).replace(",", "")
StripCommas(g) == SelectSeq(g, LAMBDA c : c # ",")

\* int(digits) for a non-empty run of digits
IntOf(d) ==
  LET val[n \in 0..Len(d)] ==
        IF n = 0 THEN 0 ELSE 10 * val[n - 1] + DigitVal(d[n])
  IN  val[Len(d)]

\* int(...) raises ValueError on the empty string
IntRaises(d) == Len(d) = 0

\* HoursOf with the passive markers tested first
HoursOf_passive_first(lower) ==
  IF \/ Contains(lower, S_passive)
     \/ \E i \in 1..Len(lower) :
          /\ lower[i] = "<"
          /\ MatchAt(lower, <<"5">>, RunEnd(lower, i + 1, {" "}))
     \/ \E i \in Occurrences(lower, S_five) :
          MatchAt(lower, S_hours, RunEnd(lower, i + Len(S_five), {" "}))
  THEN "passive"
  ELSE IF \/ Contains(lower, S_semi)
          \/ Contains(lower, S_10_20) \/ Contains(lower, S_1020)
          \/ Contains(lower, S_part_time_hyphen) \/ Contains(lower, S_part_time_space)
          \/ Contains(lower, S_parttime)
       THEN "semi"
       ELSE "owner"

\* the three-way classification of the hours branch
HoursOf(lower) ==
  IF \/ Contains(lower, S_semi)
     \/ Contains(lower, S_10_20) \/ Contains(lower, S_1020)
     \/ Contains(lower, S_part_time_hyphen) \/ Contains(lower, S_part_time_space)
     \/ Contains(lower, S_parttime)
  THEN "semi"
  ELSE IF \/ Contains(lower, S_passive)
          \/ \E i \in 1..Len(lower) :
               /\ lower[i] = "<"
               /\ MatchAt(lower, <<"5">>, RunEnd(lower, i + 1, {" "}))
          \/ \E i \in Occurrences(lower, S_five) :
               MatchAt(lower, S_hours, RunEnd(lower, i + Len(S_five), {" "}))
       THEN "passive"
       ELSE "owner"

capture_size(txt) ==
  LET t == Lower(txt)
  IN  IF ContainsWord(t, S_small) THEN "small"
      ELSE IF ContainsWord(t, S_large) \/ ContainsWord(t, S_big) THEN "large"
      ELSE IF \/ ContainsWord(t, S_either) \/ ContainsWord(t, S_any)
              \/ ContainsWord(t, S_no_preference) THEN "either"
      ELSE "None"

(***************************************************************************)
(* Digression handlers.                                                    *)
(***************************************************************************)
\* re.search(r"\b(?:i[' ]?m|my name is)\s+([a-zA-Z]+)", user_msg, re.I):
\* <<>> when there is no match, else <<group(1)>>
NameSearch(msg) ==
  LET l == Lower(msg)
      intro == {S_im, S_i_apos_m, S_i_sp_m, S_my_name_is}
      \* position of the captured name for a match starting at p, 0 if none
      NameAt(p) ==
        IF ~Boundary(msg, p) THEN 0
        ELSE LET ends == { p + Len(pre) : pre \in { q \in intro : MatchAt(l, q, p) } }
                 ok == { e \in ends :
                           /\ e <= Len(msg) /\ IsSpace(msg[e])
                           /\ LET r == RunEnd(msg, e, {" "})
                              IN  r <= Len(msg) /\ IsLetter(msg[r]) }
             IN  IF ok = {} THEN 0 ELSE RunEnd(msg, Min(ok), {" "})
      starts == { p \in 1..Len(msg) : NameAt(p) # 0 }
  IN  IF starts = {} THEN <<>>
      ELSE LET r == NameAt(Min(starts))
           IN  <<SubSeq(msg, r, RunEnd(msg, r, LetterSet) - 1)>>

\* any(w in lower for w in ["scared", "nervous", "worried", "fear"])
HasFearWord(lower) ==
  \E w \in {S_scared, S_nervous, S_worried, S_fear} : Contains(lower, w)

\* re.search(r"(benefit|advantage|difference).*small.*large", lower)
ClarifierSearch(lower) ==
  \E w \in {S_benefit, S_advantage, S_difference} :
    \E i \in Occurrences(lower, w) :
      \E j \in Occurrences(lower, S_small) :
        \E k \in Occurrences(lower, S_large) :
          j >= i + Len(w) /\ k >= j + Len(S_small)

(***************************************************************************)
(* The dataset (load_df): a fixed table of listings.  A cell is            *)
(* <<"str", text>>, <<"int", n>> or <<"nan">> (an empty spreadsheet cell). *)
(***************************************************************************)
TOP_K == 6

df ==
  <<
    [industry |-> <<"str", <<"C","o","f","f","e","e">>>>,
     summary |-> <<"str", <<"e","s","p","r","e","s","s","o"," ","b","a","r">>>>,
     cash |-> <<"str", <<"$","4","0">>>>,
     semi |-> <<"str", <<"Y","e","s">>>>,
     passive |-> <<"str", <<"N","o">>>>,
     units |-> <<"int", 150>>],
    [industry |-> <<"str", <<"F","i","t","n","e","s","s">>>>,
     summary |-> <<"str", <<"g","y","m">>>>,
     cash |-> <<"str", <<"$","6","0"," ","+">>>>,
     semi |-> <<"str", <<"N","o">>>>,
     passive |-> <<"str", <<"Y","e","s">>>>,
     units |-> <<"int", 20>>],
    [industry |-> <<"str", <<"C","o","f","f","e","e">>>>,
     summary |-> <<"str", <<"k","i","o","s","k">>>>,
     cash |-> <<"str", <<"c","a","l","l">>>>,
     semi |-> <<"str", <<"Y","e","s">>>>,
     passive |-> <<"str", <<"Y","e","s">>>>,
     units |-> <<"str", <<"n","/","a">>>>],
    [industry |-> <<"str", <<"F","o","o","d">>>>,
     summary |-> <<"str", <<"c","o","f","f","e","e"," ","a","n","d"," ","t","e","a">>>>,
     cash |-> <<"str", <<"2",",","0">>>>,
     semi |-> <<"str", <<"N","o">>>>,
     passive |-> <<"str", <<"N","o">>>>,
     units |-> <<"int", 100>>],
    [industry |-> <<"str", <<"H","o","m","e">>>>,
     summary |-> <<"str", <<"s","m","a","l","l"," ","r","e","p","a","i","r","s">>>>,
     cash |-> <<"str", <<"$","5">>>>,
     semi |-> <<"str", <<"Y","e","s">>>>,
     passive |-> <<"str", <<"N","o">>>>,
     units |-> <<"int", 99>>],
    [industry |-> <<"str", <<"G","o","l","f">>>>,
     summary |-> <<"str", <<"l","a","r","g","e"," ","r","a","n","g","e">>>>,
     cash |-> <<"nan">>,
     semi |-> <<"str", <<"N","o">>>>,
     passive |-> <<"str", <<"Y","e","s">>>>,
     units |-> <<"nan">>],
    [industry |-> <<"str", <<"P","e","t","s">>>>,
     summary |-> <<"str", <<"g","r","o","o","m","i","n","g">>>>,
     cash |-> <<"str", <<"$","1","0">>>>,
     semi |-> <<"str", <<"Y","e","s">>>>,
     passive |-> <<"str", <<"Y","e","s">>>>,
     units |-> <<"int", 0>>],
    [industry |-> <<"str", <<"A","u","t","o">>>>,
     summary |-> <<"str", <<"e","i","t","h","e","r"," ","w","a","s","h">>>>,
     cash |-> <<"str", <<"$","3","0">>>>,
     semi |-> <<"str", <<"N","o">>>>,
     passive |-> <<"str", <<"N","o">>>>,
     units |-> <<"str", <<"2","5","0">>>>]
  >>

IsStr(cell) == cell[1] = "str"

\* size_bucket(units): int(units) raises on NaN and on non-numeric text
size_bucket(units) ==
  LET raises == \/ units[1] = "nan"
                \/ IsStr(units) /\ (units[2] = <<>> \/ \E i \in DOMAIN units[2] : ~IsDigit(units[2][i]))
      n == IF units[1] = "int" THEN units[2] ELSE IntOf(units[2])
  IN  IF raises THEN "unknown"
      ELSE IF n >= 100 THEN "large" ELSE "small"

\* a text cell in lower case (case=False), other cells unchanged
LowerCell(cell) == IF IsStr(cell) THEN <<"str", Lower(cell[2])>> ELSE cell

\* Series.str.contains(pat, case=False, na=False) with pat = "|".join(tokens),
\* on a cell that is already in lower case
StrContainsAny(lcell, tokens) ==
  /\ IsStr(lcell)
  /\ \E i \in DOMAIN tokens : Contains(lcell[2], Lower(tokens[i]))

\* Series.str.extract(r"(\d[\d,]*)").replace({",": ""}, regex=True).astype(float):
\* <<>> for NaN, else <<value>>
LowOf(cell) ==
  IF ~IsStr(cell) THEN <<>>
  ELSE LET t == cell[2]
           starts == { i \in 1..Len(t) : IsDigit(t[i]) }
       IN  IF starts = {} THEN <<>>
           ELSE LET i == Min(starts)
                IN  <<IntOf(StripCommas(SubSeq(t, i, RunEnd(t, i, DigitSet \cup {","}) - 1)))>>

\* the columns the filter computes from df, row by row
df_industry == AsSeq([i \in DOMAIN df |-> LowerCell(df[i].industry)])
df_summary == AsSeq([i \in DOMAIN df |-> LowerCell(df[i].summary)])
df_low == AsSeq([i \in DOMAIN df |-> LowOf(df[i].cash)])
df_bucket == AsSeq([i \in DOMAIN df |-> size_bucket(df[i].units)])

\* the four clauses of the recommendation filter, each on row i of df
InterestsClause(prof, i) ==
  prof.interests # <<>> =>
    \/ StrContainsAny(df_industry[i], prof.interests)
    \/ StrContainsAny(df_summary[i], prof.interests)

\* "if prof["capital"]" is false for None and for 0
CapitalClause(prof, i) ==
  (prof.capital # <<>> /\ prof.capital[1] # 0) =>
    (df_low[i] # <<>> /\ df_low[i][1] <= prof.capital[1])

HoursClause(prof, i) ==
  /\ prof.hours = "semi" => df[i].semi = <<"str", S_Yes>>
  /\ prof.hours = "passive" => df[i].passive = <<"str", S_Yes>>

\* SizeClause that lets the rows of unknown size through
SizeClause_unknown(prof, i) ==
  prof.size # "either" => df_bucket[i] \in {prof.size, "unknown"}

SizeClause(prof, i) ==
  prof.size # "either" => df_bucket[i] = prof.size

\* HeadN that keeps the last n entries
HeadN_last(seq, n) ==
  SubSeq(seq, IF Len(seq) < n THEN 1 ELSE Len(seq) - n + 1, Len(seq))

\* DataFrame.head(n)
HeadN(seq, n) == SubSeq(seq, 1, IF Len(seq) < n THEN Len(seq) ELSE n)

\* rec after the four filters, as the row numbers of df that survive
RecFilter(prof) ==
  LET all == [i \in 1..Len(df) |-> i]
      r1 == SelectSeq(all, LAMBDA i : InterestsClause(prof, i))
      r2 == SelectSeq(r1, LAMBDA i : CapitalClause(prof, i))
      r3 == SelectSeq(r2, LAMBDA i : HoursClause(prof, i))
      r4 == SelectSeq(r3, LAMBDA i : SizeClause(prof, i))
  IN  r4

\* top = rec.head(TOP_K)
TopRowsOf(prof) == HeadN(RecFilter(prof), TOP_K)

(***************************************************************************)
(* User messages.  st.chat_input returns None (no turn) or a non-empty     *)
(* text; the texts below are the ones the user of the model may type.      *)
(***************************************************************************)
UserTexts ==
  {
    \* "ok"
    <<"o","k">>,
    \* "um, no"
    <<"u","m",","," ","n","o">>,
    \* "coffee"
    <<"c","o","f","f","e","e">>,
    \* "small"
    <<"s","m","a","l","l">>,
    \* "large"
    <<"l","a","r","g","e">>,
    \* "either"
    <<"e","i","t","h","e","r">>,
    \* "$50"
    <<"$","5","0">>,
    \* "0"
    <<"0">>,
    \* "semi or passive"
    <<"s","e","m","i"," ","o","r"," ","p","a","s","s","i","v","e">>,
    \* "passive"
    <<"p","a","s","s","i","v","e">>,
    \* "$50 scared"
    <<"$","5","0"," ","s","c","a","r","e","d">>,
    \* "difference between small and large"
    <<"d","i","f","f","e","r","e","n","c","e"," ","b","e","t","w","e","e","n"," ","s","m","a","l","l"," ","a","n","d"," ","l","a","r","g","e">>,
    \* "I'm Bob"
    <<"I","'","m"," ","B","o","b">>
  }

(***************************************************************************)
(* Session state.                                                          *)
(***************************************************************************)
VARIABLES
  history,    \* st.session_state.history: sequence of <<role, message>>
  profile,    \* st.session_state.profile
  stage,      \* st.session_state.stage
  error,      \* the exception that ended the latest run, "none" if none
  gpt_calls   \* number of calls of gpt() made so far

vars == <<history, profile, stage, error, gpt_calls>>

Stages == {"rapport", "capital", "hours", "size", "recommend", "done"}

\* Messages are named after the source variable that holds their text.
\* A user entry keeps the role; its text is the user_msg of the run that
\* appended it, which no later run reads.
UserEntry == <<"user", "user_msg">>
Say(msg) == <<"assistant", msg>>

NumTurns(hist) == Len(SelectSeq(hist, LAMBDA e : e[1] = "user"))

\* session state after the first script run: the state is created and the
\* greeting is appended
Init ==
  /\ history = <<Say("greet")>>
  /\ profile = [name |-> <<>>, interests |-> <<>>, capital |-> <<>>,
                hours |-> "None", size |-> "None"]
  /\ stage = "rapport"
  /\ error = "none"
  /\ gpt_calls = 0

(***************************************************************************)
(* The steps of one script run on a user message.  A run state s is the    *)
(* session state while the run is in progress.                             *)
(***************************************************************************)
\* What the searches of one run return on the message msg; lower is
\* user_msg.lower().
ScanOf(msg) ==
  LET lower == Lower(msg)
  IN  [name |-> NameSearch(msg),
       fear |-> HasFearWord(lower),
       clarifier |-> ClarifierSearch(lower),
       interests |-> InterestTokens(lower),
       capital |-> CapitalSearch(lower),
       hours |-> HoursOf(lower),
       size |-> capture_size(lower)]

\* a function as an explicit table (f @@ <<>> equals f)
Table(f) == f @@ <<>>

\* ScanOf, tabulated over the user messages of the model
Scan == Table([msg \in UserTexts |-> ScanOf(msg)])

\* the fields of the profile the filter reads
FilterKey(prof) ==
  [interests |-> prof.interests, capital |-> prof.capital,
   hours |-> prof.hours, size |-> prof.size]

\* the values the fields can take with the user messages of the model
FilterKeys ==
  [interests : { Scan[m].interests : m \in UserTexts },
   capital : {<<>>} \cup { <<IntOf(StripCommas(Scan[m].capital[1]))>> :
                             m \in { u \in UserTexts : Scan[u].capital # <<>> } },
   hours : {"None", "owner", "semi", "passive"},
   size : {"None", "small", "large", "either"}]

\* TopRowsOf, tabulated
TopTable == Table([k \in FilterKeys |-> TopRowsOf(k)])
TopRows(prof) == TopTable[FilterKey(prof)]

\* light name capture
LightNameCapture(prof, x) ==
  IF prof.name = <<>>
  THEN IF x.name # <<>> THEN [prof EXCEPT !.name = Title(x.name[1])] ELSE prof
  ELSE prof

\* Empathy that appends nothing
Empathy_none(hist, x) == hist

\* empathy if fear words
Empathy(hist, x) ==
  IF x.fear THEN Append(hist, Say("reassure")) ELSE hist

\* the condition of the clarifier
ClarifierFires(stg, x) == stg = "size" /\ x.clarifier

\* Clarifier that replaces the history by its two messages
Clarifier_reset(s) ==
  [s EXCEPT !.history = <<Say("explain"), Say("follow")>>]

\* the body of the clarifier: the two messages; the run ends there
Clarifier(s) ==
  [s EXCEPT !.history = s.history \o <<Say("explain"), Say("follow")>>]

\* RapportBranch that goes on to the hours question
RapportBranch_skip(s, x) ==
  [s EXCEPT !.profile.interests = x.interests,
            !.stage = "hours",
            !.history = Append(s.history, Say("ask_hours"))]

RapportBranch(s, x) ==
  [s EXCEPT !.profile.interests = x.interests,
            !.stage = "capital",
            !.history = Append(s.history, Say("ask_capital"))]

\* CapitalBranch with the wrong next stage
CapitalBranch_skip(s, x) ==
  LET m == x.capital
  IN  IF m # <<>>
      THEN LET d == StripCommas(m[1])
           IN  IF IntRaises(d)
               THEN [s EXCEPT !.error = "ValueError"]
               ELSE [s EXCEPT !.profile.capital = <<IntOf(d)>>,
                              !.stage = "size",
                              !.history = Append(s.history, Say("ask_hours"))]
      ELSE [s EXCEPT !.history = Append(s.history, Say("retry"))]

CapitalBranch(s, x) ==
  LET m == x.capital
  IN  IF m # <<>>
      THEN LET d == StripCommas(m[1])
           IN  IF IntRaises(d)
               THEN [s EXCEPT !.error = "ValueError"]
               ELSE [s EXCEPT !.profile.capital = <<IntOf(d)>>,
                              !.stage = "hours",
                              !.history = Append(s.history, Say("ask_hours"))]
      ELSE [s EXCEPT !.history = Append(s.history, Say("retry"))]

\* HoursBranch that goes on to the recommendation without the size question
HoursBranch_skip(s, x) ==
  [s EXCEPT !.profile.hours = x.hours,
            !.stage = "recommend"]

HoursBranch(s, x) ==
  [s EXCEPT !.profile.hours = x.hours,
            !.stage = "size",
            !.history = Append(s.history, Say("ask_size"))]

SizeBranch(s, x) ==
  LET size_choice == x.size
  IN  IF size_choice # "None"
      THEN [s EXCEPT !.profile.size = size_choice, !.stage = "recommend"]
      ELSE [s EXCEPT !.history = Append(s.history, Say("reprompt"))]

\* pipeline extraction: the if/elif chain on the stage read at the start
\* of the run
PipelineExtraction(s, x) ==
  CASE s.stage = "rapport" -> RapportBranch(s, x)
    [] s.stage = "capital" -> CapitalBranch(s, x)
    [] s.stage = "hours" -> HoursBranch(s, x)
    [] s.stage = "size" -> SizeBranch(s, x)
    [] OTHER -> s

\* Recommendation that calls gpt() before it looks at top
Recommendation_gpt_first(s, gpt) ==
  IF gpt = "ok"
  THEN [s EXCEPT !.gpt_calls = s.gpt_calls + 1,
                 !.history = Append(s.history,
                               IF TopRows(s.profile) = <<>>
                               THEN Say("no_match") ELSE Say("gpt_text")),
                 !.stage = "done"]
  ELSE [s EXCEPT !.gpt_calls = s.gpt_calls + 1,
                 !.error = "GenerationError"]

\* Recommendation that leaves the stage at recommend
Recommendation_again(s, gpt) ==
  IF TopRows(s.profile) = <<>>
  THEN [s EXCEPT !.history = Append(s.history, Say("no_match"))]
  ELSE IF gpt = "ok"
       THEN [s EXCEPT !.gpt_calls = s.gpt_calls + 1,
                      !.history = Append(s.history, Say("gpt_text"))]
       ELSE [s EXCEPT !.gpt_calls = s.gpt_calls + 1,
                      !.error = "GenerationError"]

\* the recommendation block; gpt is the outcome of the call of gpt(),
\* "ok" when it returns a text and "fail" when openai raises
Recommendation(s, gpt) ==
  IF TopRows(s.profile) = <<>>
  THEN [s EXCEPT !.history = Append(s.history, Say("no_match")),
                 !.stage = "done"]
  ELSE IF gpt = "ok"
       THEN [s EXCEPT !.gpt_calls = s.gpt_calls + 1,
                      !.history = Append(s.history, Say("gpt_text")),
                      !.stage = "done"]
       ELSE [s EXCEPT !.gpt_calls = s.gpt_calls + 1,
                      !.error = "GenerationError"]

\* FallbackSizeCapture without the test that the size is still unset
FallbackSizeCapture_always(prof, x) ==
  LET size_val == x.size
  IN  IF size_val # "None" THEN [prof EXCEPT !.size = size_val] ELSE prof

\* fallback size capture even if not in size stage
FallbackSizeCapture(prof, x) ==
  IF prof.size = "None"
  THEN LET size_val == x.size
       IN  IF size_val # "None" THEN [prof EXCEPT !.size = size_val] ELSE prof
  ELSE prof

\* the recommendation block or, in its else branch, the fallback capture
RecommendOrFallback(s, x, gpt) ==
  IF s.stage = "recommend"
  THEN Recommendation(s, gpt)
  ELSE [s EXCEPT !.profile = FallbackSizeCapture(s.profile, x)]

\* RunTurn with a clarifier that does not end the run
RunTurn_fallthrough(s, msg, gpt) ==
  LET x == Scan[msg]
      s0 == [s EXCEPT !.history = Append(s.history, UserEntry),
                      !.error = "none"]
      s1 == [s0 EXCEPT !.profile = LightNameCapture(s0.profile, x)]
      s2 == [s1 EXCEPT !.history = Empathy(s1.history, x)]
      s2c == IF ClarifierFires(s2.stage, x) THEN Clarifier(s2) ELSE s2
      s3 == PipelineExtraction(s2c, x)
  IN  IF s3.error # "none" THEN s3
      ELSE RecommendOrFallback(s3, x, gpt)

\* one script run on the user message msg.  The clarifier ends the run
\* (the statement after its messages leaves the if-block of the turn); an
\* exception ends the run where it is raised.
RunTurn(s, msg, gpt) ==
  LET x == Scan[msg]
      s0 == [s EXCEPT !.history = Append(s.history, UserEntry),
                      !.error = "none"]
      s1 == [s0 EXCEPT !.profile = LightNameCapture(s0.profile, x)]
      s2 == [s1 EXCEPT !.history = Empathy(s1.history, x)]
  IN  IF ClarifierFires(s2.stage, x)
      THEN Clarifier(s2)
      ELSE LET s3 == PipelineExtraction(s2, x)
           IN  IF s3.error # "none" THEN s3
               ELSE RecommendOrFallback(s3, x, gpt)

Session ==
  [history |-> history, profile |-> profile, stage |-> stage,
   error |-> error, gpt_calls |-> gpt_calls]

(***************************************************************************)
(* The action: one script run on a user message.                           *)
(***************************************************************************)
UserTurn(msg, gpt) ==
  /\ LET t == RunTurn(Session, msg, gpt)
     IN  /\ history' = t.history
         /\ profile' = t.profile
         /\ stage' = t.stage
         /\ error' = t.error
         /\ gpt_calls' = t.gpt_calls

GptOutcomes == {"ok", "fail"}

Next ==
  /\ NumTurns(history) < MaxTurns
  /\ \E msg \in UserTexts, gpt \in GptOutcomes : UserTurn(msg, gpt)

Spec == Init /\ [][Next]_vars

(***************************************************************************)
(* The conversation with a user who keeps answering: after at most         *)
(* MaxFreeTurns turns the user answers each question with a text the       *)
(* extractor of the stage accepts, and gpt() returns.                      *)
(***************************************************************************)
\* the extractor of the stage stg accepts msg: the branch of the stage
\* writes its field and leaves the stage
Accepts(stg, msg) ==
  LET x == Scan[msg]
  IN  CASE stg = "rapport" -> x.interests # <<>>
        [] stg = "capital" ->
             x.capital # <<>> /\ ~IntRaises(StripCommas(x.capital[1]))
        [] stg = "size" -> x.size # "None" /\ ~x.clarifier
        [] OTHER -> TRUE

\* a turn with a text the stage accepts, gpt() returning
AcceptedTurn ==
  /\ stage # "done"
  /\ \E msg \in { m \in UserTexts : Accepts(stage, m) } : UserTurn(msg, "ok")

\* a turn: any text and any outcome of gpt() during the first MaxFreeTurns
\* turns, an accepted text and a returning gpt() afterwards
LiveNext ==
  \E msg \in UserTexts, gpt \in GptOutcomes :
    /\ \/ NumTurns(history) < MaxFreeTurns
       \/ stage # "done" /\ gpt = "ok" /\ Accepts(stage, msg)
    /\ UserTurn(msg, gpt)

LiveSpec == Init /\ [][LiveNext]_vars /\ WF_vars(AcceptedTurn)

TypeOK ==
  /\ stage \in Stages
  /\ error \in {"none", "ValueError", "GenerationError"}
  /\ profile.hours \in {"None", "owner", "semi", "passive"}
  /\ profile.size \in {"None", "small", "large", "either"}
  /\ gpt_calls \in Nat
  /\ \A i \in DOMAIN history : history[i][1] \in {"user", "assistant"}


(***************************************************************************)
(* Vocabulary of the properties.                                           *)
(***************************************************************************)
\* what the step appended to the history
Appended == SubSeq(history', Len(history) + 1, Len(history'))

\* number of entries of seq that are in the set S
CountIn(seq, S) == Len(SelectSeq(seq, LAMBDA e : e \in S))

\* the assistant messages that are digressions: empathy and clarifier
Digressions == {Say("reassure"), Say("explain"), Say("follow")}

\* the assistant messages of the pipeline and of the recommendation
PipelineMessages ==
  {Say("ask_capital"), Say("ask_hours"), Say("ask_size"), Say("retry"),
   Say("reprompt"), Say("no_match"), Say("gpt_text")}

ResultMessages == {Say("no_match"), Say("gpt_text")}

StageOrd ==
  [st \in Stages |->
     CASE st = "rapport" -> 0 [] st = "capital" -> 1 [] st = "hours" -> 2
       [] st = "size" -> 3 [] st = "recommend" -> 4 [] st = "done" -> 5]

NoDigit(msg) == \A i \in DOMAIN msg : ~IsDigit(msg[i])

\* msg fails the extractor of the question stage stg (the hours extractor
\* never fails)
FailsExtractor(stg, msg) ==
  CASE stg = "rapport" -> Scan[msg].interests = <<>>
    [] stg = "capital" -> Scan[msg].capital = <<>>
    [] stg = "size" -> Scan[msg].size = "None"
    [] OTHER -> FALSE

\* a user turn was made after the recommendation step had given its result
TurnAfterResult ==
  \E i, j \in DOMAIN history :
    i < j /\ history[i] \in ResultMessages /\ history[j] = UserEntry

C1_RapportReprompts_Step ==
  stage = "rapport" =>
    /\ \A msg \in UserTexts :
         Scan[msg].interests = <<>> =>
           \A gpt \in GptOutcomes :
             UserTurn(msg, gpt) =>
               /\ stage' = "rapport"
               /\ profile'.interests = <<>>
               /\ CountIn(Appended, PipelineMessages \ {Say("ask_capital")}) = 1
    /\ stage' = "capital" => profile'.interests # <<>>

(***************************************************************************)
(* C1.  At rapport, a turn whose text yields no interest token leaves the  *)
(* stage at rapport and the interests empty and emits a re-prompt; the     *)
(* stage advances to capital only on a turn that extracted a token.        *)
(* The code advances unconditionally.                                      *)
(***************************************************************************)
C1_RapportReprompts == [][C1_RapportReprompts_Step]_vars

C2_CapitalNoDigitRetries_Step ==
  stage = "capital" =>
    \A msg \in UserTexts :
      NoDigit(msg) =>
        \A gpt \in GptOutcomes :
          UserTurn(msg, gpt) =>
            /\ error' = "none"
            /\ stage' = "capital"
            /\ profile'.capital = <<>>
            /\ CountIn(Appended, {Say("retry")}) = 1

(***************************************************************************)
(* C2.  At capital, for every text without a digit (a comma included) the  *)
(* turn completes without raising, leaves the stage at capital and the     *)
(* capital unset, and appends exactly one retry message.                   *)
(* The code raises ValueError on a comma that no digit follows.            *)
(***************************************************************************)
C2_CapitalNoDigitRetries == [][C2_CapitalNoDigitRetries_Step]_vars

C3_FailedTurnKeepsProfile_Step ==
  \A msg \in UserTexts :
    FailsExtractor(stage, msg) =>
      \A gpt \in GptOutcomes : UserTurn(msg, gpt) => profile' = profile

(***************************************************************************)
(* C3.  At each question stage, a turn whose text fails the extractor of   *)
(* the stage leaves every field of the profile as it was.                  *)
(* The name capture and the fallback size capture write on such turns.     *)
(***************************************************************************)
C3_FailedTurnKeepsProfile == [][C3_FailedTurnKeepsProfile_Step]_vars

C4_StageForward_Step ==
  \/ StageOrd[stage'] = StageOrd[stage]
  \/ StageOrd[stage'] = StageOrd[stage] + 1
  \/ stage = "size" /\ stage' = "done"

(***************************************************************************)
(* C4.  The stage only moves forward along rapport, capital, hours, size,  *)
(* recommend, done: a turn leaves it unchanged or advances it to the next  *)
(* stage (the size-completing turn goes through recommend to done); it     *)
(* never moves back or skips a question stage, and done stays done.        *)
(***************************************************************************)
C4_StageForward == [][C4_StageForward_Step]_vars

\* a conversation that went through every stage and had a turn after done
C4_Witness == stage = "done" /\ TurnAfterResult

(***************************************************************************)
(* C5.  The recommendation runs inside the turn in which the size          *)
(* extractor matched: no turn begins or ends with the stage at recommend.  *)
(* When gpt() raises, the run ends with the stage at recommend (see C6).   *)
(***************************************************************************)
C5_NeverRestsAtRecommend == stage # "recommend"

C6_GenerationFailureFallsBack_Step ==
  stage \in {"size", "recommend"} =>
    \A msg \in UserTexts :
      (UserTurn(msg, "fail") /\ gpt_calls' = gpt_calls + 1) =>
        /\ stage' = "done"
        /\ Appended # <<>>
        /\ Appended[Len(Appended)][1] = "assistant"
        /\ Appended[Len(Appended)] \notin Digressions

(***************************************************************************)
(* C6.  When the recommendation set is not empty and the call of the       *)
(* text generation fails, the turn still appends an assistant fallback     *)
(* message and the stage becomes done.                                     *)
(* gpt() has no exception handler: nothing is appended and the stage       *)
(* stays at recommend.                                                     *)
(***************************************************************************)
C6_GenerationFailureFallsBack == [][C6_GenerationFailureFallsBack_Step]_vars

C7_FieldsWrittenOnce_Step ==
  /\ profile.name # <<>> => profile'.name = profile.name
  /\ profile.capital # <<>> => profile'.capital = profile.capital
  /\ profile.hours # "None" => profile'.hours = profile.hours
  /\ profile.size # "None" => profile'.size = profile.size

(***************************************************************************)
(* C7.  Each field of the profile is written at most once: once name,      *)
(* capital, hours or size holds a value, no later turn gives it another.   *)
(* The size branch overwrites a size the fallback capture wrote earlier.   *)
(***************************************************************************)
C7_FieldsWrittenOnce == [][C7_FieldsWrittenOnce_Step]_vars

C8_ProfileFrozenAtDone_Step ==
  stage = "done" =>
    /\ profile'.interests = profile.interests
    /\ profile'.capital = profile.capital
    /\ profile'.hours = profile.hours
    /\ profile'.size = profile.size

C9_ClarifierConsumesTurn_Step ==
  /\ stage = "size" =>
       \A msg \in UserTexts :
         Scan[msg].clarifier =>
           \A gpt \in GptOutcomes :
             UserTurn(msg, gpt) =>
               /\ stage' = "size"
               /\ profile'.size = profile.size
               /\ SubSeq(Appended, Len(Appended) - 1, Len(Appended))
                    = <<Say("explain"), Say("follow")>>
               /\ CountIn(Appended, PipelineMessages) = 0
  /\ stage # "size" =>
       CountIn(Appended, {Say("explain"), Say("follow")}) = 0

C10_OneMessagePerTurn_Step ==
  CountIn(Appended, {Say("explain")}) = 0 =>
    CountIn(Appended, PipelineMessages) = 1

(***************************************************************************)
(* C10.  Every turn that the clarifier does not consume, at every stage    *)
(* including done, appends exactly one assistant message that is not a     *)
(* digression: one question, one retry or the recommendation.              *)
(* A turn at done appends none, and so does a run that raises (C2, C6).    *)
(***************************************************************************)
C10_OneMessagePerTurn == [][C10_OneMessagePerTurn_Step]_vars

\* the anxiety keywords
FearWords == {S_scared, S_nervous, S_worried, S_fear}

\* the positions of msg that an anxiety keyword covers
FearCovered(msg) ==
  { i \in DOMAIN msg :
      \E w \in FearWords :
        \E j \in Occurrences(Lower(msg), w) : j <= i /\ i < j + Len(w) }

Max(S) == CHOOSE x \in S : \A y \in S : x >= y

\* s without the spaces at its ends
Trim(s) ==
  LET keep == { i \in DOMAIN s : ~IsSpace(s[i]) }
  IN  IF keep = {} THEN <<>> ELSE SubSeq(s, Min(keep), Max(keep))

\* the text msg with its anxiety keywords taken out
WithoutFearWords(msg) ==
  LET idx == Sorted(DOMAIN msg \ FearCovered(msg))
  IN  Trim(AsSeq([k \in DOMAIN idx |-> msg[idx[k]]]))

\* the pairs <<text with a keyword, the same text without it>> of the user
\* messages of the model
FearPairs ==
  { p \in { <<m, WithoutFearWords(m)>> : m \in { u \in UserTexts : Scan[u].fear } } :
      p[2] \in UserTexts }

\* what a run on msg appends after the user entry
RunAppends(msg, gpt) ==
  LET r == RunTurn(Session, msg, gpt)
  IN  SubSeq(r.history, Len(history) + 2, Len(r.history))

C11_EmpathyKeepsPipeline_Step ==
  \A p \in FearPairs :
    \A gpt \in GptOutcomes :
      UserTurn(p[1], gpt) =>
        LET r == RunTurn(Session, p[2], gpt)
        IN  /\ stage' = r.stage
            /\ profile'.capital = r.profile.capital
            /\ profile'.hours = r.profile.hours
            /\ profile'.size = r.profile.size
            /\ Appended = <<UserEntry, Say("reassure")>> \o RunAppends(p[2], gpt)

C11_SameProfileWrite_Step ==
  \A p \in FearPairs :
    \A gpt \in GptOutcomes :
      UserTurn(p[1], gpt) =>
        LET r == RunTurn(Session, p[2], gpt)
        IN  /\ stage' = r.stage
            /\ profile' = r.profile
            /\ Appended = <<UserEntry, Say("reassure")>> \o RunAppends(p[2], gpt)

RecommendationRan ==
  /\ stage # "done"
  /\ stage' = "done" \/ gpt_calls' # gpt_calls

\* top, the rows the recommendation block of the step computed: the block
\* reads the profile it leaves unchanged
Result == TopRows(profile')

C12_EmptySetNoGeneration_Step ==
  (RecommendationRan /\ Result = <<>>) =>
    /\ Appended[Len(Appended)] = Say("no_match")
    /\ CountIn(Appended, PipelineMessages) = 1
    /\ gpt_calls' = gpt_calls
    /\ error' = "none"
    /\ stage' = "done"

(***************************************************************************)
(* C12.  When the filtered recommendation set is empty, the turn appends   *)
(* the fixed no-matches message, makes no call of gpt(), raises nothing    *)
(* and the stage becomes done.                                             *)
(***************************************************************************)
C12_EmptySetNoGeneration == [][C12_EmptySetNoGeneration_Step]_vars

\* a conversation that ended with the no-matches message and no call of gpt()
C12_Witness ==
  /\ stage = "done"
  /\ history[Len(history)] = Say("no_match")
  /\ gpt_calls = 0
  /\ TopRows(profile) = <<>>

C13_ResultWithinCapital_Step ==
  (RecommendationRan /\ profile'.capital # <<>>) =>
    \A k \in DOMAIN Result :
      /\ df_low[Result[k]] # <<>>
      /\ df_low[Result[k]][1] <= profile'.capital[1]

(***************************************************************************)
(* C13.  Whenever the recommendation runs with the capital set to a        *)
(* non-negative integer, 0 included, every listing of the result has a     *)
(* parsable minimum cash value that is at most the capital; listings       *)
(* without a parsable numeral are excluded.                                *)
(* The test "if prof["capital"]" is false for 0: no capital filter then.   *)
(***************************************************************************)
C13_ResultWithinCapital == [][C13_ResultWithinCapital_Step]_vars

\* the clauses of the filter, by name
ClauseNames == {"interests", "capital", "hours", "size"}

ClauseHolds(c, prof, i) ==
  CASE c = "interests" -> InterestsClause(prof, i)
    [] c = "capital" -> CapitalClause(prof, i)
    [] c = "hours" -> HoursClause(prof, i)
    [] c = "size" -> SizeClause(prof, i)

\* the orders in which the four clauses can be applied
ClauseOrders ==
  { o \in [1..4 -> ClauseNames] : \A a, b \in 1..4 : a # b => o[a] # o[b] }

\* for the profile prof, whether clause c holds on row i of df
ClauseTable(prof) ==
  Table([c \in ClauseNames |->
           Table([i \in DOMAIN df |-> ClauseHolds(c, prof, i)])])

\* the rows of df left when the clauses of the table holds are applied one
\* after the other in the order o
FilterInOrder(holds, o) ==
  LET all == [i \in 1..Len(df) |-> i]
      r1 == SelectSeq(all, LAMBDA i : holds[o[1]][i])
      r2 == SelectSeq(r1, LAMBDA i : holds[o[2]][i])
      r3 == SelectSeq(r2, LAMBDA i : holds[o[3]][i])
  IN  SelectSeq(r3, LAMBDA i : holds[o[4]][i])

\* the rows of df that satisfy every clause, in the row order of df
Satisfying(prof) ==
  SelectSeq([i \in 1..Len(df) |-> i],
            LAMBDA i : \A c \in ClauseNames : ClauseHolds(c, prof, i))

\* the first TOP_K entries of seq
FirstK(seq) == SubSeq(seq, 1, IF Len(seq) <= TOP_K THEN Len(seq) ELSE TOP_K)

\* top is the first TOP_K rows that satisfy every clause, whatever the order
\* of the clauses
FilterFactsOf(k) ==
  LET top == TopRowsOf(k)
      holds == ClauseTable(k)
  IN  /\ Len(top) <= TOP_K
      /\ \A j \in DOMAIN top : \A c \in ClauseNames : holds[c][top[j]]
      /\ top = FirstK(Satisfying(k))
      /\ \A o \in ClauseOrders : FirstK(FilterInOrder(holds, o)) = top

\* FilterFactsOf, tabulated over the profiles the model can reach
FilterFacts == Table([k \in FilterKeys |-> FilterFactsOf(k)])

C14_FirstKInRowOrder_Step ==
  RecommendationRan => FilterFacts[FilterKey(profile')]

SemiMarkers ==
  {S_semi, S_10_20, S_1020, S_part_time_hyphen, S_part_time_space, S_parttime}

HasSemiMarker(lower) == \E w \in SemiMarkers : Contains(lower, w)

\* lower[i..j-1] is made of spaces only
SpacesBetween(lower, i, j) == \A k \in i..(j - 1) : IsSpace(lower[k])

\* the markers of the passive class: "passive", "<" then "5", "five" then
\* "hours", with nothing but spaces in between
HasPassiveMarker(lower) ==
  \/ Contains(lower, S_passive)
  \/ \E i, j \in DOMAIN lower :
       i < j /\ lower[i] = "<" /\ lower[j] = "5" /\ SpacesBetween(lower, i + 1, j)
  \/ \E i \in Occurrences(lower, S_five), j \in Occurrences(lower, S_hours) :
       i + Len(S_five) <= j /\ SpacesBetween(lower, i + Len(S_five), j)

\* the class of a text: semi before passive before owner
HoursClass(msg) ==
  LET lower == Lower(msg)
  IN  IF HasSemiMarker(lower) THEN "semi"
      ELSE IF HasPassiveMarker(lower) THEN "passive"
      ELSE "owner"

HoursClasses == Table([msg \in UserTexts |-> HoursClass(msg)])

C15_HoursTotal_Step ==
  stage = "hours" =>
    \A msg \in UserTexts :
      \A gpt \in GptOutcomes :
        UserTurn(msg, gpt) =>
          /\ profile'.hours = HoursClasses[msg]
          /\ profile'.hours \in {"semi", "passive", "owner"}
          /\ stage' = "size"
          /\ error' = "none"
          /\ Appended[Len(Appended)] = Say("ask_size")
          /\ CountIn(Appended, PipelineMessages) = 1

(***************************************************************************)
(* C15.  At hours every user text is classified as exactly one of semi,    *)
(* passive, owner, semi markers before passive markers before the owner    *)
(* default; the turn always writes the hours, advances the stage to size   *)
(* and emits the size question: the hours stage never re-prompts.          *)
(***************************************************************************)
C15_HoursTotal == [][C15_HoursTotal_Step]_vars

\* the hours turn has just classified a text as semi and asked for the size
C15_Witness ==
  /\ stage = "size"
  /\ profile.hours = "semi"
  /\ history[Len(history)] = Say("ask_size")

C16_HistoryAppendOnly_Step ==
  /\ Len(history') > Len(history)
  /\ SubSeq(history', 1, Len(history)) = history
  /\ Appended[1] = UserEntry
  /\ \A k \in 2..Len(Appended) : Appended[k][1] = "assistant"

(***************************************************************************)
(* C16.  The history is append-only: after every turn the previous         *)
(* history is a prefix of the new one, the first entry the turn appended   *)
(* is the user's message and every other entry it appended has the role    *)
(* assistant; no entry is changed or removed.                              *)
(***************************************************************************)
C16_HistoryAppendOnly == [][C16_HistoryAppendOnly_Step]_vars

\* a history of several turns, one of which appended two assistant messages
\* (the explanation and the re-ask)
C16_Witness ==
  /\ NumTurns(history) >= 4
  /\ \E i \in DOMAIN history :
       /\ i + 2 <= Len(history)
       /\ SubSeq(history, i, i + 2) = <<UserEntry, Say("explain"), Say("follow")>>

\* size_bucket on unit counts and on values that are not numbers
BucketFacts ==
  /\ \A n \in 100..300 : size_bucket(<<"int", n>>) = "large"
  /\ \A n \in 1..99 : size_bucket(<<"int", n>>) = "small"
  /\ size_bucket(<<"nan">>) = "unknown"
  /\ size_bucket(<<"str", <<"n","/","a">>>>) = "unknown"
  /\ size_bucket(<<"str", <<>>>>) = "unknown"

\* row i satisfies the clauses other than the size clause
OtherClauses(prof, i) ==
  InterestsClause(prof, i) /\ CapitalClause(prof, i) /\ HoursClause(prof, i)

\* the first TOP_K rows that satisfy the clauses other than the size clause
TopWithoutSize(prof) ==
  FirstK(SelectSeq([i \in 1..Len(df) |-> i], LAMBDA i : OtherClauses(prof, i)))

C17_SizeBuckets_Step ==
  /\ BucketFacts
  /\ RecommendationRan =>
       /\ profile'.size \in {"small", "large"} =>
            \A k \in DOMAIN Result : df_bucket[Result[k]] = profile'.size
       /\ profile'.size = "either" => Result = TopWithoutSize(profile')

(***************************************************************************)
(* C17.  size_bucket maps a unit count of 100 or more to large, a count    *)
(* from 1 to 99 to small and a value that is not a number to unknown; when *)
(* the size preference is small or large, no listing of the unknown bucket *)
(* or of the other bucket is in the recommendation; the preference either  *)
(* applies no size filter.                                                 *)
(***************************************************************************)
C17_SizeBuckets == [][C17_SizeBuckets_Step]_vars

\* a recommendation for the preference large was made while a row of the
\* unknown bucket satisfied the other clauses
C17_Witness ==
  /\ stage = "done"
  /\ profile.size = "large"
  /\ TopRows(profile) # <<>>
  /\ \E i \in DOMAIN df : df_bucket[i] = "unknown" /\ OtherClauses(profile, i)

(***************************************************************************)
(* C18.  In every reachable state the profile is as complete as the stage  *)
(* requires: at hours the capital is set; at size the capital and the      *)
(* hours are set; at recommend and at done the capital, the hours and the  *)
(* size are set.  Hence the filter never runs on a profile whose capital,  *)
(* hours or size is unset.                                                 *)
(***************************************************************************)
C18_ProfileCompleteForStage ==
  /\ stage = "hours" => profile.capital # <<>>
  /\ stage = "size" => profile.capital # <<>> /\ profile.hours # "None"
  /\ stage \in {"recommend", "done"} =>
       /\ profile.capital # <<>>
       /\ profile.hours # "None"
       /\ profile.size # "None"

\* the stage is at recommend (the generation call raised) with a complete
\* profile whose capital is 0
C18_Witness ==
  /\ stage = "recommend"
  /\ profile.capital = <<0>>
  /\ profile.hours = "owner"
  /\ profile.size = "either"

C19_ResultOnce_Step ==
  /\ CountIn(history', ResultMessages) <= 1
  /\ CountIn(history, ResultMessages) = 1 =>
       /\ ~RecommendationRan
       /\ gpt_calls' = gpt_calls
       /\ stage = "done" /\ stage' = "done"

(***************************************************************************)
(* C19.  The result message of the recommendation step (the generated      *)
(* text or the no-matches message) is appended at most once in a           *)
(* conversation; after it no later turn runs the filter or the generation  *)
(* call again.                                                             *)
(***************************************************************************)
C19_ResultOnce == [][C19_ResultOnce_Step]_vars

\* a turn was made after the generated recommendation: the history still
\* has one result message and gpt() was called once
C19_Witness ==
  /\ stage = "done"
  /\ gpt_calls = 1
  /\ CountIn(history, ResultMessages) = 1
  /\ history[Len(history)] = UserEntry
  /\ Say("gpt_text") \in Range(history)

(***************************************************************************)
(* C20.  Under the fairness assumption that the user keeps sending turns,  *)
(* that at each question stage the user eventually sends a text the        *)
(* extractor of the stage accepts, and that the generation call returns,   *)
(* the conversation eventually reaches the stage done; and it needs at     *)
(* least four user turns to get there.                                     *)
(***************************************************************************)
C20_EventuallyDone ==
  /\ <>(stage = "done")
  /\ [](stage = "done" => NumTurns(history) >= 4)

\* the stage done reached with four user turns
C20_Witness ==
  /\ stage = "done"
  /\ NumTurns(history) = 4
  /\ CountIn(history, ResultMessages) = 1

====
